---- MODULE Spec2Model ----
(***************************************************************************)
(* Food-Delivery backend (Express + Mongoose): the customer cart, the      *)
(* order lifecycle, the rating aggregation, accounts and their approval,   *)
(* the role guards and the admin's deletions and site configuration, as a  *)
(* state machine over the document store.  One action per HTTP handler; a  *)
(* handler's middleware (findOrCreateCart) and its Mongoose hooks (pre/post *)
(* save) are part of the handler's action.  The handlers of the Admin      *)
(* configuration are split at their awaits.  Money is in whole currency    *)
(* units.                                                                  *)
(***************************************************************************)
EXTENDS Integers, Sequences, FiniteSets, TLC

VARIABLES
    restaurants,  \* Restaurant collection: id -> [owner, averageRating]
    foodItems,    \* FoodItem collection: id -> [restaurant, price, discount, rating]
    carts,        \* Cart collection: user -> [exists, items], items the line items
    orders,       \* Order collection, in creation order; an order's id is its index
    feedbacks,    \* FeedbackCustomer collection, in creation order
    users,        \* User collection: email -> [exists, password, userType, approval]
    deletedOrders, \* ids of the orders removed from the Order collection
    adminConfigs, \* Admin (site configuration) collection, in creation order
    calls,        \* admin configuration requests in flight:
                  \* caller -> [pc, op, name, ids, found, seen]
    inflight,     \* customer and restaurant requests in flight, stopped at an await:
                  \* slot -> [pc, op, user, food, qty, price, rest, order, rating,
                  \*          lines, status, avg]
    tokens,       \* the bearer tokens issued: payloads [user, userType]
    res           \* the response to the last request handled

vars == <<restaurants, foodItems, carts, orders, feedbacks, users, deletedOrders,
          adminConfigs, calls, inflight, tokens, res>>

\* what the customer and restaurant handlers, run as one step, never write
adminVars == <<users, deletedOrders, adminConfigs, calls, inflight, tokens>>

-----------------------------------------------------------------------------
(* Bounds of the model *)

MaxQty == 2          \* cap on a cart line's quantity
MaxCartOrders == 1
MaxQuantityOrders == 1
MaxRaceOrders == 1   \* cap on the orders stored, checkout specification
MaxOrders == 2       \* cap on the orders stored, order lifecycle specification
MaxTotalOrders == 1  \* cap on the orders stored, order totals specification
MaxFaultOrders == 1  \* cap on the orders stored, failing-store specification
MaxRatedOrders == 1  \* cap on the orders stored, rating specification
MaxFeedbacks == 3    \* cap on the ratings stored
MaxLinkedOrders == 2 \* cap on the orders stored, order-linked rating specification
MaxDeleteOrders == 2 \* cap on the orders stored, deletion specification
MaxDeleteFeedbacks == 2  \* cap on the ratings stored, deletion specification

(* Program constants *)

MinQuantity == 1   \* schema: quantity min
MinRating == 1     \* rating range accepted by POST /feedback
MaxRating == 5

-----------------------------------------------------------------------------
(* The universe of identifiers *)

Customers == {"c1", "c2"}
Owners == {"o1", "o2"}
Admins == {"a1", "a2"}
NewEmails == {"n1", "n2"}      \* emails no account has at the start
Accounts == Customers \cup Owners \cup Admins \cup NewEmails
Slots == {"s1", "s2"}          \* requests that can be in flight at once
RestIds == {"r1", "r2"}
FoodIds == {"f1", "f2"}
MissingFood == "f0"            \* a well-formed id no FoodItem has
MissingRest == "r0"            \* a well-formed id no Restaurant has
LineIdPool == <<"i1", "i2", "i3">>   \* cart line _ids, handed out in order

Null == "null"      \* a string or id that is null / undefined / absent from a body
NoOrder == 0        \* no order id
NoAmount == -1      \* a totalAmount not yet computed
NoRating == [num |-> 0, den |-> 0]             \* an average rating of null
NoCart == [exists |-> FALSE, items |-> <<>>]   \* Cart.findOne finds no document
\* User.findOne finds no document
NoUser == [exists |-> FALSE, password |-> Null, userType |-> Null, approval |-> Null]
\* no admin configuration request of the caller is in flight
Idle == [pc |-> "idle", op |-> Null, name |-> Null, ids |-> {}, found |-> 0, seen |-> <<>>]
\* no request occupies the slot
NoReq == [pc |-> "idle", op |-> Null, user |-> Null, food |-> Null, qty |-> 0, price |-> 0,
          rest |-> Null, order |-> 0, rating |-> 0, lines |-> <<>>, status |-> Null,
          avg |-> NoRating]

(* User.address of the customers (schema default '') *)
UserAddress(u) == IF u = "c1" THEN "home" ELSE ""

-----------------------------------------------------------------------------
(* Generic helpers *)

RECURSIVE SumSeq(_)
SumSeq(s) == IF s = <<>> THEN 0 ELSE Head(s) + SumSeq(Tail(s))

\* Array.prototype.findIndex, given the set of indices whose element passes the
\* test: the first of them, 0 for -1
FirstIndex(passing) ==
    IF passing = {} THEN 0 ELSE CHOOSE i \in passing : \A j \in passing : i <= j

\* res.status(code).json(body): the handler and caller, the status code, the
\* message, and the id (a string) or the number the body carries
Response(op, u, code, msg, ref, n) ==
    [op |-> op, user |-> u, code |-> code, msg |-> msg, ref |-> ref, n |-> n]

-----------------------------------------------------------------------------
(* Cart *)

\* CartAbsent that never finds the cart
CartAbsentAlways(u) == TRUE

\* middleware findOrCreateCart: Cart.findOne({user}) finds no document
CartAbsent(u) == ~carts[u].exists

\* middleware findOrCreateCart: the user's cart, created empty (and stored) if absent
FindOrCreateCart(u) == IF CartAbsent(u) THEN <<>> ELSE carts[u].items

\* GET /api/customer/cart: the cart of the middleware, populated for the answer
GetCart(u) ==
    /\ feedbacks' = feedbacks /\ orders' = orders /\ UNCHANGED adminVars
    /\ restaurants' = restaurants /\ foodItems' = foodItems
    /\ carts' = [carts EXCEPT ![u] = [exists |-> TRUE, items |-> FindOrCreateCart(u)]]
    /\ res' = Response("getCart", u, 200, "cart", Null, Len(FindOrCreateCart(u)))

\* a new subdocument _id: one no line of the cart has
FreshLineId(cart) ==
    LET used == {cart[i].id : i \in 1..Len(cart)}
        k == CHOOSE i \in 1..Len(LineIdPool) :
                 /\ LineIdPool[i] \notin used
                 /\ \A j \in 1..(i - 1) : LineIdPool[j] \in used
    IN LineIdPool[k]

\* CartSchema validation of the line items at cart.save()
CartValidAlways(cart) == TRUE

\* CartSchema.items.quantity: min 1, checked by cart.save()
CartValid(cart) == \A i \in 1..Len(cart) : cart[i].quantity >= MinQuantity

\* AddedCart that pushes a new line whether or not the pair is in the cart
AddedCartAlwaysPush(cart, foodItemId, quantity, price, restaurantId) ==
    Append(cart, [id |-> FreshLineId(cart),
                  foodItem |-> foodItemId,
                  quantity |-> quantity,
                  priceAtTimeOfAddition |-> price,
                  restaurant |-> restaurantId])

\* POST /cart/add: the cart the handler builds before cart.save()
AddedCart(cart, foodItemId, quantity, price, restaurantId) ==
    LET idx == FirstIndex({i \in 1..Len(cart) :
                   cart[i].foodItem = foodItemId /\ cart[i].restaurant = restaurantId})
    IN IF idx > 0
       THEN [cart EXCEPT ![idx].quantity = @ + quantity]
       ELSE Append(cart, [id |-> FreshLineId(cart),
                          foodItem |-> foodItemId,
                          quantity |-> quantity,
                          priceAtTimeOfAddition |-> price,
                          restaurant |-> restaurantId])

\* POST /api/customer/cart/add
AddToCart(u, foodItemId, quantity, price, restaurantId) ==
    LET cart == FindOrCreateCart(u)
        created == [carts EXCEPT ![u] = [exists |-> TRUE, items |-> cart]]
        newCart == AddedCart(cart, foodItemId, quantity, price, restaurantId)
    IN /\ feedbacks' = feedbacks /\ orders' = orders /\ UNCHANGED adminVars
       /\ restaurants' = restaurants /\ foodItems' = foodItems
       /\ IF foodItemId = Null \/ quantity = 0 \/ price = 0 \/ restaurantId = Null
          THEN /\ carts' = created
               /\ res' = Response("addToCart", u, 400, "required", Null, 0)
          ELSE IF foodItemId \notin DOMAIN foodItems
          THEN /\ carts' = created
               /\ res' = Response("addToCart", u, 404, "foodItemNotFound", Null, 0)
          ELSE IF foodItems[foodItemId].restaurant # restaurantId
          THEN /\ carts' = created
               /\ res' = Response("addToCart", u, 400, "wrongRestaurant", Null, 0)
          ELSE IF ~CartValid(newCart)
          THEN /\ carts' = created
               /\ res' = Response("addToCart", u, 400, "validation", Null, 0)
          ELSE /\ carts' = [carts EXCEPT ![u] = [exists |-> TRUE, items |-> newCart]]
               /\ res' = Response("addToCart", u, 200, "added", Null, Len(newCart))

\* what the cart handlers never write, in one step or in two
nonCartVars == <<restaurants, foodItems, orders, feedbacks, users, deletedOrders,
                 adminConfigs, calls, tokens>>

\* POST /api/customer/cart/add up to the awaits before cart.save(): the body's
\* checks, the food item's lookup, and the cart read (or created) by
\* findOrCreateCart, which the request keeps in memory
AddToCartRead(slot, u, foodItemId, quantity, price, restaurantId) ==
    LET cart == FindOrCreateCart(u)
    IN /\ inflight[slot].pc = "idle"
       /\ UNCHANGED nonCartVars
       /\ carts' = [carts EXCEPT ![u] = [exists |-> TRUE, items |-> cart]]
       /\ IF foodItemId = Null \/ quantity = 0 \/ price = 0 \/ restaurantId = Null
          THEN /\ inflight' = inflight
               /\ res' = Response("addToCart", u, 400, "required", Null, 0)
          ELSE IF foodItemId \notin DOMAIN foodItems
          THEN /\ inflight' = inflight
               /\ res' = Response("addToCart", u, 404, "foodItemNotFound", Null, 0)
          ELSE IF foodItems[foodItemId].restaurant # restaurantId
          THEN /\ inflight' = inflight
               /\ res' = Response("addToCart", u, 400, "wrongRestaurant", Null, 0)
          ELSE /\ inflight' = [inflight EXCEPT ![slot] =
                                  [NoReq EXCEPT !.pc = "read", !.op = "addToCart",
                                                !.user = u, !.food = foodItemId,
                                                !.qty = quantity, !.price = price,
                                                !.rest = restaurantId, !.lines = cart]]
               /\ res' = res

\* the stored line items after cart.save() of the cart built from the lines read:
\* a changed quantity is written to its position in the stored array, a pushed
\* line is appended to the stored array
SavedCart(stored, read, newCart) ==
    IF Len(newCart) = Len(read)
    THEN LET idx == CHOOSE i \in 1..Len(read) : newCart[i] # read[i]
         IN [stored EXCEPT ![idx].quantity = newCart[idx].quantity]
    ELSE Append(stored, [newCart[Len(newCart)] EXCEPT !.id = FreshLineId(stored)])

\* POST /api/customer/cart/add from cart.save() on: validation, the write, the
\* answer.  A changed quantity is written only if the stored array still has
\* the lines that were read (the document's version), otherwise save fails.
AddToCartSave(slot) ==
    LET call == inflight[slot]
        stored == carts[call.user].items
        newCart == AddedCart(call.lines, call.food, call.qty, call.price, call.rest)
        merged == Len(newCart) = Len(call.lines)
        sameLines == /\ Len(stored) = Len(call.lines)
                     /\ \A i \in 1..Len(stored) : stored[i].id = call.lines[i].id
    IN /\ call.pc = "read" /\ call.op = "addToCart"
       /\ UNCHANGED nonCartVars
       /\ inflight' = [inflight EXCEPT ![slot] = NoReq]
       /\ IF ~CartValid(newCart)
          THEN /\ carts' = carts
               /\ res' = Response("addToCart", call.user, 400, "validation", Null, 0)
          ELSE IF merged /\ ~sameLines
          THEN /\ carts' = carts
               /\ res' = Response("addToCart", call.user, 500, "serverError", Null, 0)
          ELSE /\ carts' = [carts EXCEPT ![call.user].items =
                               SavedCart(stored, call.lines, newCart)]
               /\ res' = Response("addToCart", call.user, 200, "added", Null, Len(newCart))

\* PUT /api/customer/cart/:cartItemId
UpdateCartItem(u, cartItemId, quantity) ==
    LET cart == FindOrCreateCart(u)
        created == [carts EXCEPT ![u] = [exists |-> TRUE, items |-> cart]]
        itemIndex == FirstIndex({i \in 1..Len(cart) : cart[i].id = cartItemId})
    IN /\ feedbacks' = feedbacks /\ orders' = orders /\ UNCHANGED adminVars
       /\ restaurants' = restaurants /\ foodItems' = foodItems
       /\ IF quantity = 0 \/ quantity < 1
          THEN /\ carts' = created
               /\ res' = Response("updateCartItem", u, 400, "quantity", Null, 0)
          ELSE IF itemIndex = 0
          THEN /\ carts' = created
               /\ res' = Response("updateCartItem", u, 404, "cartItemNotFound", Null, 0)
          ELSE /\ carts' = [carts EXCEPT ![u] = [exists |-> TRUE, items |-> [cart EXCEPT ![itemIndex].quantity = quantity]]]
               /\ res' = Response("updateCartItem", u, 200, "updated", Null, 0)

\* The two DELETE routes of the customer router under /cart/, in the order
\* they are registered: router.delete('/cart/:cartItemId') comes first.
DeleteCartRoutes ==
    << [path |-> ":cartItemId", handler |-> "removeItem"],
       [path |-> "clear", handler |-> "clearCart"] >>

\* Express path matching of one route against the segment after /cart/
RouteMatches(route, segment) ==
    route.path = ":cartItemId" \/ route.path = segment

\* Express runs the first registered route that matches; both handlers end
\* the request without calling next()
DeleteCartHandler(segment) ==
    DeleteCartRoutes[FirstIndex({i \in 1..Len(DeleteCartRoutes) :
                                    RouteMatches(DeleteCartRoutes[i], segment)})].handler

\* DELETE /api/customer/cart/<segment>
DeleteCart(u, segment) ==
    LET cart == FindOrCreateCart(u)
        created == [carts EXCEPT ![u] = [exists |-> TRUE, items |-> cart]]
        kept == SelectSeq(cart, LAMBDA item : item.id # segment)
    IN /\ feedbacks' = feedbacks /\ orders' = orders /\ UNCHANGED adminVars
       /\ restaurants' = restaurants /\ foodItems' = foodItems
       /\ IF DeleteCartHandler(segment) = "removeItem"
          THEN IF Len(kept) = Len(cart)
               THEN /\ carts' = created
                    /\ res' = Response("deleteCart", u, 404, "cartItemNotFound", segment, 0)
               ELSE /\ carts' = [carts EXCEPT ![u] = [exists |-> TRUE, items |-> kept]]
                    /\ res' = Response("deleteCart", u, 200, "removed", segment, 0)
          ELSE IF Len(cart) = 0
               THEN /\ carts' = created
                    /\ res' = Response("deleteCart", u, 200, "alreadyEmpty", segment, 0)
               ELSE /\ carts' = [carts EXCEPT ![u] = [exists |-> TRUE, items |-> <<>>]]
                    /\ res' = Response("deleteCart", u, 200, "cleared", segment, 0)

-----------------------------------------------------------------------------
(* Orders *)

\* the ids Order.findById finds a document for
OrderIds == {id \in 1..Len(orders) : id \notin deletedOrders}

OrderStatuses == {"pending", "preparing", "delivered", "cancelled"}  \* schema enum
PaymentMethods == {"COD", "Card"}                                    \* schema enum

\* FirstInvalidItem without the test of the item's restaurant
FirstInvalidItemExistenceOnly(items, restaurant) ==
    FirstIndex({i \in 1..Len(items) : items[i].foodItem \notin DOMAIN foodItems})

\* POST /orders, the loop over req.body.items: the index of the first item whose
\* food item does not exist or belongs to another restaurant, 0 if there is none
FirstInvalidItem(items, restaurant) ==
    FirstIndex({i \in 1..Len(items) :
        \/ items[i].foodItem \notin DOMAIN foodItems
        \/ foodItems[items[i].foodItem].restaurant # restaurant})

\* POST /orders: the catalog's current unit price, price * (1 - discount / 100)
ActualUnitPrice(foodItemId) ==
    (foodItems[foodItemId].price * (100 - foodItems[foodItemId].discount)) \div 100

\* OrderSchema validation at save(): item quantity min 1, paymentMethod enum
OrderValid(order) ==
    /\ \A i \in 1..Len(order.items) : order.items[i].quantity >= MinQuantity
    /\ order.paymentMethod \in PaymentMethods
    /\ order.status \in OrderStatuses

\* OrderPreSave adding up the prices without the quantities
OrderPreSavePricesOnly(order) ==
    [order EXCEPT !.totalAmount =
        SumSeq([i \in 1..Len(order.items) |-> order.items[i].price])]

\* OrderSchema.pre('save'): totalAmount = reduce(acc + price * quantity, 0)
OrderPreSave(order) ==
    [order EXCEPT !.totalAmount =
        SumSeq([i \in 1..Len(order.items) |->
                    order.items[i].price * order.items[i].quantity])]

\* POST /orders: new Order({user, restaurant, items, paymentMethod, deliveryAddress})
\* with the schema defaults (status pending, item discount 0, orderDate Date.now:
\* the clock is the number of orders stored so far plus one)
NewOrder(u, restaurant, items, paymentMethod, deliveryAddress) ==
    [user |-> u,
     restaurant |-> restaurant,
     items |-> [i \in 1..Len(items) |->
                   [foodItem |-> items[i].foodItem, quantity |-> items[i].quantity,
                    price |-> items[i].price, discount |-> 0]],
     totalAmount |-> NoAmount,
     status |-> "pending",
     orderDate |-> Len(orders) + 1,
     paymentMethod |-> IF paymentMethod = Null THEN "COD" ELSE paymentMethod,
     deliveryAddress |-> IF deliveryAddress # Null THEN deliveryAddress
                         ELSE IF UserAddress(u) # "" THEN UserAddress(u)
                         ELSE "Not specified"]

\* CartAfterOrder emptying the whole cart
CartAfterOrderEmptied(cart, restaurant) == <<>>

\* POST /orders: the cart without the lines of the ordered restaurant
CartAfterOrder(cart, restaurant) ==
    SelectSeq(cart, LAMBDA item : item.restaurant # restaurant)

\* POST /api/customer/orders.  orderSaveOk / cartSaveOk: whether the store
\* carries out newOrder.save() / cart.save() or the call throws
PlaceOrder(u, restaurant, items, paymentMethod, deliveryAddress, orderSaveOk, cartSaveOk) ==
    LET cart == FindOrCreateCart(u)
        created == [carts EXCEPT ![u] = [exists |-> TRUE, items |-> cart]]
        bad == FirstInvalidItem(items, restaurant)
        newOrder == NewOrder(u, restaurant, items, paymentMethod, deliveryAddress)
        saved == OrderPreSave(newOrder)
    IN /\ feedbacks' = feedbacks /\ UNCHANGED adminVars
       /\ restaurants' = restaurants /\ foodItems' = foodItems
       /\ IF restaurant = Null \/ Len(items) = 0
          THEN /\ carts' = created /\ orders' = orders
               /\ res' = Response("placeOrder", u, 400, "required", Null, 0)
          ELSE IF bad > 0
          THEN /\ carts' = created /\ orders' = orders
               /\ res' = Response("placeOrder", u, 400, "invalidFoodItem", items[bad].foodItem, 0)
          ELSE IF ~OrderValid(newOrder)
          THEN /\ carts' = created /\ orders' = orders
               /\ res' = Response("placeOrder", u, 400, "validation", Null, 0)
          ELSE IF ~orderSaveOk
          THEN /\ carts' = created /\ orders' = orders
               /\ res' = Response("placeOrder", u, 500, "serverError", Null, 0)
          ELSE /\ orders' = Append(orders, saved)
               /\ IF ~cartSaveOk
                  THEN /\ carts' = created
                       /\ res' = Response("placeOrder", u, 500, "serverError", Null, 0)
                  ELSE /\ carts' = [carts EXCEPT ![u] = [exists |-> TRUE, items |-> CartAfterOrder(cart, restaurant)]]
                       /\ res' = Response("placeOrder", u, 201, "placed", Null, Len(orders) + 1)

\* WithStatus that also stamps the order anew
WithStatusRedated(order, status) == [order EXCEPT !.status = status, !.orderDate = 0]

\* order.status = status: the one assignment of the cancel and update-status
\* handlers before order.save()
WithStatus(order, status) == [order EXCEPT !.status = status]

\* OrderOfUser that takes every order for the caller's
OrderOfAnyUser(id, u) == TRUE

\* order.user.toString() === req.user._id.toString()
OrderOfUser(id, u) == orders[id].user = u

\* CancelOrder with the status check naming cancelled only
CancelOrderDeliveredToo(u, id) ==
    /\ feedbacks' = feedbacks /\ carts' = carts /\ UNCHANGED adminVars
    /\ restaurants' = restaurants /\ foodItems' = foodItems
    /\ IF id \notin OrderIds
       THEN /\ orders' = orders
            /\ res' = Response("cancelOrder", u, 404, "orderNotFound", Null, id)
       ELSE IF orders[id].user # u
       THEN /\ orders' = orders
            /\ res' = Response("cancelOrder", u, 403, "notYourOrder", Null, id)
       ELSE IF orders[id].status = "cancelled"
       THEN /\ orders' = orders
            /\ res' = Response("cancelOrder", u, 400, orders[id].status, Null, id)
       ELSE /\ orders' = [orders EXCEPT ![id].status = "cancelled"]
            /\ res' = Response("cancelOrder", u, 200, "cancelled", Null, id)

\* PUT /api/customer/orders/:id/cancel
CancelOrder(u, id) ==
    /\ feedbacks' = feedbacks /\ carts' = carts /\ UNCHANGED adminVars
    /\ restaurants' = restaurants /\ foodItems' = foodItems
    /\ IF id \notin OrderIds
       THEN /\ orders' = orders
            /\ res' = Response("cancelOrder", u, 404, "orderNotFound", Null, id)
       ELSE IF ~OrderOfUser(id, u)
       THEN /\ orders' = orders
            /\ res' = Response("cancelOrder", u, 403, "notYourOrder", Null, id)
       ELSE IF orders[id].status = "delivered" \/ orders[id].status = "cancelled"
       THEN /\ orders' = orders
            /\ res' = Response("cancelOrder", u, 400, orders[id].status, Null, id)
       ELSE /\ orders' = [orders EXCEPT ![id] = OrderPreSave(WithStatus(@, "cancelled"))]
            /\ res' = Response("cancelOrder", u, 200, "cancelled", Null, id)

\* middleware findRestaurant: Restaurant.findOne({owner}), null if there is none
FindRestaurant(owner) ==
    IF \E r \in DOMAIN restaurants : restaurants[r].owner = owner
    THEN CHOOSE r \in DOMAIN restaurants : restaurants[r].owner = owner
    ELSE Null

\* OrderOfRestaurant that takes every order for the restaurant's
OrderOfAnyRestaurant(id, restaurantId) == TRUE

\* order.restaurant.toString() === restaurantId.toString()
OrderOfRestaurant(id, restaurantId) == orders[id].restaurant = restaurantId

\* PUT /api/restaurant/orders/:id/status
UpdateOrderStatus(owner, id, status) ==
    /\ feedbacks' = feedbacks /\ carts' = carts /\ UNCHANGED adminVars
    /\ restaurants' = restaurants /\ foodItems' = foodItems
    /\ IF FindRestaurant(owner) = Null
       THEN /\ orders' = orders
            /\ res' = Response("updateOrderStatus", owner, 403, "noRestaurant", Null, id)
       ELSE IF status \notin {"pending", "preparing", "delivered", "cancelled"}
       THEN /\ orders' = orders
            /\ res' = Response("updateOrderStatus", owner, 400, "invalidStatus", Null, id)
       ELSE IF id \notin OrderIds
       THEN /\ orders' = orders
            /\ res' = Response("updateOrderStatus", owner, 404, "orderNotFound", Null, id)
       ELSE IF ~OrderOfRestaurant(id, FindRestaurant(owner))
       THEN /\ orders' = orders
            /\ res' = Response("updateOrderStatus", owner, 403, "notYourOrder", Null, id)
       ELSE /\ orders' = [orders EXCEPT ![id] = OrderPreSave(WithStatus(@, status))]
            /\ res' = Response("updateOrderStatus", owner, 200, status, Null, id)

-----------------------------------------------------------------------------
(* Customer ratings *)

RECURSIVE Gcd(_, _)
Gcd(a, b) == IF b = 0 THEN a ELSE Gcd(b, a % b)

\* $group {averageRating: {$avg: '$rating'}} over the matched documents: their
\* sum divided by their number, kept as a fraction in lowest terms
Average(matched) ==
    LET total == SumSeq([i \in 1..Len(matched) |-> matched[i].rating])
        g == Gcd(total, Len(matched))
    IN [num |-> total \div g, den |-> Len(matched) \div g]

\* RestaurantStats averaging the ratings of every receiver
RestaurantStatsAllReceivers(fbs, restaurantId) ==
    IF Len(fbs) > 0 THEN Average(fbs) ELSE NoRating

\* post('save'), first aggregate: $match {receiver, rating not null}; the value
\* written is the group's average, or null when the aggregate returns no group
RestaurantStats(fbs, restaurantId) ==
    LET matched == SelectSeq(fbs, LAMBDA fb : fb.receiver = restaurantId)
    IN IF Len(matched) > 0 THEN Average(matched) ELSE NoRating

\* post('save'), second aggregate: $match {foodItem, rating not null}
FoodItemStats(fbs, foodItemId) ==
    LET matched == SelectSeq(fbs, LAMBDA fb : fb.foodItem = foodItemId)
    IN IF Len(matched) > 0 THEN Average(matched) ELSE NoRating

\* FeedbackCustomerSchema.post('save'): Restaurant.findByIdAndUpdate(receiver,
\* {averageRating}); a receiver that is no restaurant updates nothing
RestaurantsAfterSave(fb, fbs) ==
    IF fb.receiver \in DOMAIN restaurants
    THEN [restaurants EXCEPT ![fb.receiver].averageRating = RestaurantStats(fbs, fb.receiver)]
    ELSE restaurants

\* FeedbackCustomerSchema.post('save'): if (foodItemId) FoodItem.findByIdAndUpdate(
\* foodItemId, {rating})
FoodItemsAfterSave(fb, fbs) ==
    IF fb.foodItem # Null /\ fb.foodItem \in DOMAIN foodItems
    THEN [foodItems EXCEPT ![fb.foodItem].rating = FoodItemStats(fbs, fb.foodItem)]
    ELSE foodItems

\* POST /feedback: new FeedbackCustomer({user, receiver, order, rating, message});
\* the handler reads order, restaurant, rating and message from the body and
\* nothing else, so the document's foodItem is left unset
NewFeedback(u, order, restaurant, rating) ==
    [user |-> u, receiver |-> restaurant, order |-> order,
     foodItem |-> Null, rating |-> rating]

\* OwnOrder that accepts any stored order
OwnOrderAnyUser(u, order) == order \in OrderIds

\* Order.findById(order) finds an order and it is the caller's
OwnOrder(u, order) == order \in OrderIds /\ orders[order].user = u

\* AlreadyRated that looks for any order-linked rating of the user
AlreadyRatedAnyOrder(u, order) ==
    \E i \in 1..Len(feedbacks) : feedbacks[i].user = u /\ feedbacks[i].order # NoOrder

\* FeedbackCustomer.findOne({user, order}) finds a document
AlreadyRated(u, order) ==
    \E i \in 1..Len(feedbacks) : feedbacks[i].user = u /\ feedbacks[i].order = order

\* POST /api/customer/feedback.  foodItem is the body's foodItem field.
SubmitFeedback(u, order, restaurant, rating, foodItem) ==
    LET newFeedback == NewFeedback(u, order, restaurant, rating)
        stored == Append(feedbacks, newFeedback)
    IN /\ carts' = carts /\ orders' = orders /\ UNCHANGED adminVars
       /\ IF restaurant = Null \/ rating = 0 \/ rating < MinRating \/ rating > MaxRating
          THEN /\ feedbacks' = feedbacks
               /\ restaurants' = restaurants /\ foodItems' = foodItems
               /\ res' = Response("submitFeedback", u, 400, "required", Null, 0)
          ELSE IF order # NoOrder /\ ~OwnOrder(u, order)
          THEN /\ feedbacks' = feedbacks
               /\ restaurants' = restaurants /\ foodItems' = foodItems
               /\ res' = Response("submitFeedback", u, 403, "notYourOrder", Null, 0)
          ELSE IF order # NoOrder /\ orders[order].status # "delivered"
          THEN /\ feedbacks' = feedbacks
               /\ restaurants' = restaurants /\ foodItems' = foodItems
               /\ res' = Response("submitFeedback", u, 400, "notDelivered", Null, 0)
          ELSE IF order # NoOrder /\ AlreadyRated(u, order)
          THEN /\ feedbacks' = feedbacks
               /\ restaurants' = restaurants /\ foodItems' = foodItems
               /\ res' = Response("submitFeedback", u, 400, "alreadyRated", Null, 0)
          ELSE /\ feedbacks' = stored
               /\ restaurants' = RestaurantsAfterSave(newFeedback, stored)
               /\ foodItems' = FoodItemsAfterSave(newFeedback, stored)
               /\ res' = Response("submitFeedback", u, 201, "submitted", Null, Len(stored))

-----------------------------------------------------------------------------
(* Accounts *)

UserTypes == {"admin", "restaurant", "customer"}     \* schema enum
ShortPasswords == {"abc"}                            \* shorter than minlength 6

\* what no handler of /api or of the user administration writes
nonAccountVars == <<restaurants, foodItems, carts, orders, feedbacks, deletedOrders,
                    adminConfigs, calls, inflight>>

\* generateToken(id, userType): jwt.sign({id, userType}, secret)
GenerateToken(id, userType) == [user |-> id, userType |-> userType]

\* User.create({name, email, password, userType, approval}): the schema default
\* fills in a userType that is undefined; approval is computed from the body's
\* userType.  The stored password hash is modelled by the password it matches.
NewUser(password, userType) ==
    [exists |-> TRUE,
     password |-> password,
     userType |-> IF userType = Null THEN "customer" ELSE userType,
     approval |-> IF userType = "customer" THEN "accepted" ELSE "pending"]

\* UserSchema validation at User.create
UserValid(user) == user.password \notin ShortPasswords /\ user.userType \in UserTypes

\* POST /api/register
Register(email, password, userType) ==
    /\ UNCHANGED nonAccountVars
    /\ IF users[email].exists
       THEN /\ users' = users /\ tokens' = tokens
            /\ res' = Response("register", email, 400, "userExists", Null, 0)
       ELSE IF ~UserValid(NewUser(password, userType))
       THEN /\ users' = users /\ tokens' = tokens
            /\ res' = Response("register", email, 400, "validation", Null, 0)
       ELSE /\ users' = [users EXCEPT ![email] = NewUser(password, userType)]
            /\ tokens' = tokens \cup {GenerateToken(email, NewUser(password, userType).userType)}
            /\ res' = Response("register", email, 201, "registered",
                               NewUser(password, userType).userType, 0)

\* PendingApproval that holds restaurants back only
PendingApprovalRestaurantOnly(user) ==
    user.userType = "restaurant" /\ user.approval = "pending"

\* POST /login: the approval check for restaurant and admin accounts
PendingApproval(user) == user.userType # "customer" /\ user.approval = "pending"

\* POST /api/login
Login(email, password) ==
    /\ UNCHANGED nonAccountVars /\ users' = users
    /\ IF ~users[email].exists
       THEN /\ tokens' = tokens
            /\ res' = Response("login", email, 400, "invalidCredentials", Null, 0)
       ELSE IF users[email].password # password
       THEN /\ tokens' = tokens
            /\ res' = Response("login", email, 400, "invalidCredentials", Null, 0)
       ELSE IF PendingApproval(users[email])
       THEN /\ tokens' = tokens
            /\ res' = Response("login", email, 403, "pendingApproval", Null, 0)
       ELSE /\ tokens' = tokens \cup {GenerateToken(email, users[email].userType)}
            /\ res' = Response("login", email, 200, "loggedIn", users[email].userType, 0)

\* PUT /api/admin/users/:id/approve, the caller an admin
ApproveUser(admin, id) ==
    /\ UNCHANGED nonAccountVars /\ tokens' = tokens
    /\ IF ~users[id].exists
       THEN /\ users' = users
            /\ res' = Response("approveUser", admin, 404, "userNotFound", id, 0)
       ELSE IF users[id].userType = "customer"
       THEN /\ users' = users
            /\ res' = Response("approveUser", admin, 400, "customer", id, 0)
       ELSE IF users[id].approval = "accepted"
       THEN /\ users' = users
            /\ res' = Response("approveUser", admin, 400, "alreadyApproved", id, 0)
       ELSE /\ users' = [users EXCEPT ![id].approval = "accepted"]
            /\ res' = Response("approveUser", admin, 200, "approved", id, 0)

-----------------------------------------------------------------------------
(* Deletion by the admin *)

\* FoodItem.deleteMany({restaurant: restaurantId})
FoodItemsAfterDelete(restaurantId) ==
    [f \in {g \in DOMAIN foodItems : foodItems[g].restaurant # restaurantId} |-> foodItems[f]]

\* Order.deleteMany({restaurant: restaurantId})
OrdersDeletedWith(restaurantId) ==
    deletedOrders \cup {id \in OrderIds : orders[id].restaurant = restaurantId}

\* FeedbacksAfterDelete with an empty filter
FeedbacksAfterDeleteAll(restaurantId) == <<>>

\* FeedbackCustomer.deleteMany({receiver: restaurantId})
FeedbacksAfterDelete(restaurantId) ==
    SelectSeq(feedbacks, LAMBDA fb : fb.receiver # restaurantId)

\* Restaurant.deleteOne({_id: restaurantId})
RestaurantsAfterDelete(restaurantId) ==
    [r \in DOMAIN restaurants \ {restaurantId} |-> restaurants[r]]

\* DELETE /api/admin/restaurants/:id, the caller an admin
DeleteRestaurant(admin, restaurantId) ==
    /\ UNCHANGED <<carts, orders, users, adminConfigs, calls, inflight, tokens>>
    /\ IF restaurantId \notin DOMAIN restaurants
       THEN /\ UNCHANGED <<restaurants, foodItems, feedbacks, deletedOrders>>
            /\ res' = Response("deleteRestaurant", admin, 404, "restaurantNotFound",
                               restaurantId, 0)
       ELSE /\ foodItems' = FoodItemsAfterDelete(restaurantId)
            /\ deletedOrders' = OrdersDeletedWith(restaurantId)
            /\ feedbacks' = FeedbacksAfterDelete(restaurantId)
            /\ restaurants' = RestaurantsAfterDelete(restaurantId)
            /\ res' = Response("deleteRestaurant", admin, 200, "deleted", restaurantId, 0)

\* DELETE /api/admin/users/:id, the caller an admin
DeleteUser(admin, id) ==
    LET restaurant == FindRestaurant(id)
    IN /\ UNCHANGED <<carts, orders, adminConfigs, calls, inflight, tokens>>
       /\ IF ~users[id].exists
          THEN /\ UNCHANGED <<restaurants, foodItems, feedbacks, deletedOrders, users>>
               /\ res' = Response("deleteUser", admin, 404, "userNotFound", id, 0)
          ELSE IF admin = id
          THEN /\ UNCHANGED <<restaurants, foodItems, feedbacks, deletedOrders, users>>
               /\ res' = Response("deleteUser", admin, 403, "ownAccount", id, 0)
          ELSE IF users[id].userType = "admin"
          THEN /\ UNCHANGED <<restaurants, foodItems, feedbacks, deletedOrders, users>>
               /\ res' = Response("deleteUser", admin, 403, "otherAdmin", id, 0)
          ELSE /\ IF users[id].userType = "restaurant" /\ restaurant # Null
                  THEN /\ foodItems' = FoodItemsAfterDelete(restaurant)
                       /\ deletedOrders' = OrdersDeletedWith(restaurant)
                       /\ feedbacks' = FeedbacksAfterDelete(restaurant)
                       /\ restaurants' = RestaurantsAfterDelete(restaurant)
                  ELSE UNCHANGED <<restaurants, foodItems, feedbacks, deletedOrders>>
               /\ users' = [users EXCEPT ![id] = NoUser]
               /\ res' = Response("deleteUser", admin, 200, "deleted", id, 0)

-----------------------------------------------------------------------------
(* The Admin configuration document.  A handler that awaits the store between *)
(* reading the document and saving it is two steps, so that requests of two   *)
(* admins can overlap.                                                        *)

\* AdminSchema.categories default
DefaultCategories ==
    <<"Indian", "Chinese", "Italian", "Mexican", "Fast Food", "Desserts", "Beverages">>

\* Admin.findOne(): the id (position) of the first document, 0 if there is none
FindAdminConfig == IF Len(adminConfigs) > 0 THEN 1 ELSE 0

\* what no handler of the configuration writes
nonConfigVars == <<restaurants, foodItems, carts, orders, feedbacks, users, deletedOrders,
                   inflight, tokens>>

\* POST /api/admin/categories up to "await Admin.findOne()"; a missing or empty
\* name is refused before the store is read
AddCategoryFind(admin, name) ==
    /\ calls[admin].pc = "idle"
    /\ UNCHANGED nonConfigVars /\ adminConfigs' = adminConfigs
    /\ IF name = Null \/ name = ""
       THEN /\ calls' = calls
            /\ res' = Response("addCategory", admin, 400, "nameRequired", Null, 0)
       ELSE /\ calls' = [calls EXCEPT ![admin] =
                            [pc |-> "found", op |-> "addCategory", name |-> name, ids |-> {},
                             found |-> FindAdminConfig,
                             seen |-> IF FindAdminConfig = 0 THEN <<>>
                                      ELSE adminConfigs[FindAdminConfig].categories]]
            /\ res' = res

\* POST /api/admin/categories from the document read to the answer: a new
\* Admin({categories: []}) if none was found, the includes check on the
\* categories as read, push and save
AddCategorySave(admin) ==
    LET call == calls[admin]
    IN /\ call.pc = "found" /\ call.op = "addCategory"
       /\ UNCHANGED nonConfigVars
       /\ calls' = [calls EXCEPT ![admin] = Idle]
       /\ IF \E i \in 1..Len(call.seen) : call.seen[i] = call.name
          THEN /\ adminConfigs' = adminConfigs
               /\ res' = Response("addCategory", admin, 400, "categoryExists", call.name, 0)
          ELSE /\ adminConfigs' =
                      IF call.found = 0
                      THEN Append(adminConfigs,
                                  [categories |-> <<call.name>>, promotedRestaurants |-> {}])
                      ELSE [adminConfigs EXCEPT ![call.found].categories = Append(@, call.name)]
               /\ res' = Response("addCategory", admin, 201, "added", call.name,
                                  Len(adminConfigs'))

\* PUT /api/admin/promoted-restaurants up to "await Admin.findOne()"
SetPromotedFind(admin, restaurantIds) ==
    /\ calls[admin].pc = "idle"
    /\ UNCHANGED nonConfigVars /\ adminConfigs' = adminConfigs
    /\ calls' = [calls EXCEPT ![admin] =
                    [pc |-> "found", op |-> "setPromoted", name |-> Null,
                     ids |-> restaurantIds, found |-> FindAdminConfig, seen |-> <<>>]]
    /\ res' = res

\* PUT /api/admin/promoted-restaurants from the document read to the answer: a
\* new Admin({promotedRestaurants: []}) if none was found, the ids that are
\* restaurants, each once, and save
SetPromotedSave(admin) ==
    LET call == calls[admin]
        validRestaurantIds == call.ids \cap DOMAIN restaurants
    IN /\ call.pc = "found" /\ call.op = "setPromoted"
       /\ UNCHANGED nonConfigVars
       /\ calls' = [calls EXCEPT ![admin] = Idle]
       /\ adminConfigs' =
              IF call.found = 0
              THEN Append(adminConfigs, [categories |-> DefaultCategories,
                                         promotedRestaurants |-> validRestaurantIds])
              ELSE [adminConfigs EXCEPT ![call.found].promotedRestaurants = validRestaurantIds]
       /\ res' = Response("setPromoted", admin, 200, "updated", Null, Len(adminConfigs'))

-----------------------------------------------------------------------------
(* Guards: protect and authorize, and the routers that mount them *)

\* the Authorization header of a request: none, one that is not a Bearer
\* header, "Bearer" with no token, a token whose signature does not verify, an
\* expired token, or a token jwt.verify accepts with its payload {id, userType}
BadCredentialKinds == {"none", "basic", "bearerOnly", "forged", "expired"}

\* protect that lets an expired token through
ProtectExpiredPasses(cred) == IF cred.kind \in {"valid", "expired"} THEN "next" ELSE "401"

\* protect: next() when jwt.verify accepts the token, 401 otherwise
Protect(cred) == IF cred.kind = "valid" THEN "next" ELSE "401"

\* authorize(...roles): req.userType is the verified token's userType, and
\* undefined when protect has not run
Authorize(roles, cred, protected) ==
    IF (IF protected THEN cred.userType ELSE Null) \notin roles THEN "403" ELSE "next"

\* the routes of adminRoutes.js and whether they mount protect, authorize('admin')
AdminRoutes ==
    {[path |-> p, guarded |-> TRUE] :
        p \in {"GET /dashboard-counts", "GET /users", "PUT /users/:id/approve",
               "DELETE /users/:id", "GET /profile", "PUT /profile", "GET /restaurants",
               "DELETE /restaurants/:id", "GET /orders", "GET /categories",
               "POST /categories", "PUT /categories/:oldName", "DELETE /categories/:name",
               "GET /feedbacks/customer", "GET /feedbacks/restaurant",
               "PUT /feedbacks/restaurant/:id/resolve", "GET /feedbacks/admin",
               "GET /feedback/user", "PUT /feedback/user/:id/status",
               "POST /feedbacks/admin/send", "GET /promoted-restaurants",
               "PUT /promoted-restaurants"}}
    \cup
    {[path |-> p, guarded |-> FALSE] :
        p \in {"GET /reports/metrics", "GET /reports/order-trend",
               "GET /reports/top-restaurants", "GET /reports/category-popularity",
               "GET /reports/rating-distribution"}}

\* a request through protect, authorize(role) and on to the route's handler:
\* the stage that answers it
Guarded(role, cred) ==
    IF Protect(cred) # "next" THEN [code |-> 401, stage |-> "protect"]
    ELSE IF Authorize({role}, cred, TRUE) # "next" THEN [code |-> 403, stage |-> "authorize"]
    ELSE [code |-> 200, stage |-> "handler"]

\* a request to a route of /api/admin
AdminRequest(route, cred) ==
    LET answer == IF route.guarded THEN Guarded("admin", cred)
                  ELSE [code |-> 200, stage |-> "handler"]
    IN /\ UNCHANGED nonAccountVars /\ users' = users /\ tokens' = tokens
       /\ res' = Response("adminRequest", cred.user, answer.code, answer.stage, route.path, 0)

\* a request to /api/restaurant or /api/customer: router.use(protect, authorize(role))
RouterRequest(role, cred) ==
    /\ UNCHANGED nonAccountVars /\ users' = users /\ tokens' = tokens
    /\ res' = Response("routerRequest", cred.user, Guarded(role, cred).code,
                       Guarded(role, cred).stage, role, 0)

-----------------------------------------------------------------------------
(* PUT /orders/:id/cancel step by step: the handler awaits the store        *)
(* between Order.findById with its checks and order.save().                 *)

\* PUT /api/customer/orders/:id/cancel up to order.save(): the order is read
\* and checked, and the request keeps the document it read
CancelOrderRead(slot, u, id) ==
    /\ inflight[slot].pc = "idle"
    /\ feedbacks' = feedbacks /\ carts' = carts /\ orders' = orders
    /\ restaurants' = restaurants /\ foodItems' = foodItems
    /\ UNCHANGED <<users, deletedOrders, adminConfigs, calls, tokens>>
    /\ IF id \notin OrderIds
       THEN /\ inflight' = inflight
            /\ res' = Response("cancelOrder", u, 404, "orderNotFound", Null, id)
       ELSE IF ~OrderOfUser(id, u)
       THEN /\ inflight' = inflight
            /\ res' = Response("cancelOrder", u, 403, "notYourOrder", Null, id)
       ELSE IF orders[id].status = "delivered" \/ orders[id].status = "cancelled"
       THEN /\ inflight' = inflight
            /\ res' = Response("cancelOrder", u, 400, orders[id].status, Null, id)
       ELSE /\ inflight' = [inflight EXCEPT ![slot] =
                               [NoReq EXCEPT !.pc = "read", !.op = "cancelOrder",
                                             !.user = u, !.order = id,
                                             !.status = orders[id].status]]
            /\ res' = res

\* order.status = 'cancelled'; order.save(): the modified path is written to
\* the stored order
CancelOrderSave(slot) ==
    LET call == inflight[slot]
    IN /\ call.pc = "read" /\ call.op = "cancelOrder"
       /\ feedbacks' = feedbacks /\ carts' = carts
       /\ restaurants' = restaurants /\ foodItems' = foodItems
       /\ UNCHANGED <<users, deletedOrders, adminConfigs, calls, tokens>>
       /\ orders' = [orders EXCEPT ![call.order] = OrderPreSave(WithStatus(@, "cancelled"))]
       /\ inflight' = [inflight EXCEPT ![slot] = NoReq]
       /\ res' = Response("cancelOrder", call.user, 200, "cancelled", Null, call.order)

-----------------------------------------------------------------------------
(* POST /feedback step by step: the handler awaits the store between its     *)
(* checks and the insert, and the post('save') hook awaits it between the    *)
(* aggregate and the update of the restaurant.                               *)

\* what the rating handler never writes
nonRatingVars == <<foodItems, carts, orders, users, deletedOrders, adminConfigs, calls, tokens>>

\* POST /api/customer/feedback up to newFeedback.save(): the body's checks and,
\* when an order is named, the checks on the order and the already-rated lookup
FeedbackCheck(slot, u, order, restaurant, rating) ==
    /\ inflight[slot].pc = "idle"
    /\ UNCHANGED nonRatingVars
    /\ feedbacks' = feedbacks /\ restaurants' = restaurants
    /\ IF restaurant = Null \/ rating = 0 \/ rating < MinRating \/ rating > MaxRating
       THEN /\ inflight' = inflight
            /\ res' = Response("submitFeedback", u, 400, "required", Null, 0)
       ELSE IF order # NoOrder /\ ~OwnOrder(u, order)
       THEN /\ inflight' = inflight
            /\ res' = Response("submitFeedback", u, 403, "notYourOrder", Null, 0)
       ELSE IF order # NoOrder /\ orders[order].status # "delivered"
       THEN /\ inflight' = inflight
            /\ res' = Response("submitFeedback", u, 400, "notDelivered", Null, 0)
       ELSE IF order # NoOrder /\ AlreadyRated(u, order)
       THEN /\ inflight' = inflight
            /\ res' = Response("submitFeedback", u, 400, "alreadyRated", Null, 0)
       ELSE /\ inflight' = [inflight EXCEPT ![slot] =
                               [NoReq EXCEPT !.pc = "checked", !.op = "submitFeedback",
                                             !.user = u, !.order = order,
                                             !.rest = restaurant, !.rating = rating]]
            /\ res' = res

\* newFeedback.save(): the document is inserted
FeedbackInsert(slot) ==
    LET call == inflight[slot]
    IN /\ call.pc = "checked" /\ call.op = "submitFeedback"
       /\ UNCHANGED nonRatingVars
       /\ feedbacks' = Append(feedbacks,
                              NewFeedback(call.user, call.order, call.rest, call.rating))
       /\ restaurants' = restaurants
       /\ inflight' = [inflight EXCEPT ![slot].pc = "saved"]
       /\ res' = res

\* post('save'): the aggregate over the ratings stored for the receiver
FeedbackAggregate(slot) ==
    LET call == inflight[slot]
    IN /\ call.pc = "saved" /\ call.op = "submitFeedback"
       /\ UNCHANGED nonRatingVars
       /\ feedbacks' = feedbacks /\ restaurants' = restaurants
       /\ inflight' = [inflight EXCEPT ![slot].pc = "aggregated",
                                       ![slot].avg = RestaurantStats(feedbacks, call.rest)]
       /\ res' = res

\* post('save'): Restaurant.findByIdAndUpdate(receiver, {averageRating}) with
\* the aggregate's value, then the handler's answer
FeedbackUpdate(slot) ==
    LET call == inflight[slot]
    IN /\ call.pc = "aggregated" /\ call.op = "submitFeedback"
       /\ UNCHANGED nonRatingVars
       /\ feedbacks' = feedbacks
       /\ restaurants' = IF call.rest \in DOMAIN restaurants
                         THEN [restaurants EXCEPT ![call.rest].averageRating = call.avg]
                         ELSE restaurants
       /\ inflight' = [inflight EXCEPT ![slot] = NoReq]
       /\ res' = Response("submitFeedback", call.user, 201, "submitted", Null,
                          Len(feedbacks))

-----------------------------------------------------------------------------
(* Initial state: two restaurants with one menu item each, no carts, no orders, *)
(* no ratings.                                                                  *)

Init ==
    /\ restaurants = [r \in RestIds |->
                        [owner |-> IF r = "r1" THEN "o1" ELSE "o2", averageRating |-> NoRating]]
    /\ foodItems = [f \in FoodIds |->
                      IF f = "f1"
                      THEN [restaurant |-> "r1", price |-> 2, discount |-> 0, rating |-> NoRating]
                      ELSE [restaurant |-> "r2", price |-> 4, discount |-> 50, rating |-> NoRating]]
    /\ carts = [u \in Customers |-> NoCart]
    /\ orders = <<>>
    /\ feedbacks = <<>>
    /\ users = [e \in Accounts |->
                  IF e \in NewEmails THEN NoUser
                  ELSE [exists |-> TRUE, password |-> "secret",
                        userType |-> IF e \in Customers THEN "customer"
                                     ELSE IF e \in Owners THEN "restaurant" ELSE "admin",
                        approval |-> "accepted"]]
    /\ deletedOrders = {}
    /\ adminConfigs = <<>>
    /\ calls = [a \in Admins |-> Idle]
    /\ inflight = [slot \in Slots |-> NoReq]
    /\ tokens = {}
    /\ res = Response("none", Null, 0, Null, Null, 0)

-----------------------------------------------------------------------------
(* Request bodies *)

QuantityInputs == {-1, 0, 1}
PriceInputs == {0, 2, 3}          \* 0 is falsy, 2 is both items' catalog unit price
FoodInputs == FoodIds \cup {MissingFood}
SegmentInputs == {LineIdPool[i] : i \in 1..Len(LineIdPool)} \cup {"clear"}
StatusInputs == OrderStatuses \cup {"shipped"}
PaymentInputs == {Null, "Card", "Cash"}

\* req.body.items of POST /orders: at most two items
ItemLists(itemInputs) ==
    {<<>>} \cup {<<a>> : a \in itemInputs} \cup {<<a, b>> : a \in itemInputs, b \in itemInputs}

\* items at the catalog price, any food item
PlainItems == [foodItem : FoodInputs, quantity : {1}, price : {2}]
\* items of existing food items, the price as the client states it
PricedItems == [foodItem : FoodIds, quantity : {1, 2}, price : {2, 3}]
\* one item of each restaurant
MenuItem(r) == [foodItem |-> IF r = "r1" THEN "f1" ELSE "f2", quantity |-> 1, price |-> 2]

-----------------------------------------------------------------------------
(* Spec: the cart of one customer, requests handled one after another, the *)
(* store carrying out every write.                                         *)

AddToCartReq ==
    \E f \in FoodInputs, q \in QuantityInputs, p \in PriceInputs, r \in RestIds :
        LET cart == FindOrCreateCart("c1")
            newCart == AddedCart(cart, f, q, p, r)
        IN /\ Len(cart) < Len(LineIdPool)
           /\ \A i \in 1..Len(newCart) : newCart[i].quantity <= MaxQty
           /\ AddToCart("c1", f, q, p, r)

UpdateCartItemReq ==
    \E seg \in SegmentInputs, q \in QuantityInputs :
        q <= MaxQty /\ UpdateCartItem("c1", seg, q)

DeleteCartReq == \E seg \in SegmentInputs : DeleteCart("c1", seg)

Next ==
    \/ AddToCartReq
    \/ UpdateCartItemReq
    \/ DeleteCartReq

Spec == Init /\ [][Next]_vars

-----------------------------------------------------------------------------
(* SpecCheckout: one customer fills the cart and places orders.            *)

FillCartReq ==
    \E f \in FoodIds, p \in {2, 3}, r \in RestIds :
        LET cart == FindOrCreateCart("c1")
            newCart == AddedCart(cart, f, 1, p, r)
        IN /\ Len(cart) < Len(LineIdPool)
           /\ \A i \in 1..Len(newCart) : newCart[i].quantity <= MaxQty
           /\ AddToCart("c1", f, 1, p, r)

CheckoutReq ==
    \E r \in RestIds \cup {Null}, items \in ItemLists(PlainItems) :
        /\ Len(orders) < MaxCartOrders
        /\ PlaceOrder("c1", r, items, Null, Null, TRUE, TRUE)

NextCheckout ==
    \/ FillCartReq
    \/ CheckoutReq

SpecCheckout == Init /\ [][NextCheckout]_vars

-----------------------------------------------------------------------------
(* SpecLifecycle: orders of two customers at two restaurants, placed,      *)
(* cancelled by customers and moved by restaurant owners.                   *)

PlaceMenuOrderReq ==
    \E u \in Customers, r \in RestIds :
        /\ Len(orders) < MaxOrders
        /\ PlaceOrder(u, r, <<MenuItem(r)>>, Null, Null, TRUE, TRUE)

CancelOrderReq ==
    \E u \in Customers, id \in 1..MaxOrders : CancelOrder(u, id)

UpdateOrderStatusReq ==
    \E o \in Owners, id \in 1..MaxOrders, st \in StatusInputs : UpdateOrderStatus(o, id, st)

NextLifecycle ==
    \/ PlaceMenuOrderReq
    \/ CancelOrderReq
    \/ UpdateOrderStatusReq

SpecLifecycle == Init /\ [][NextLifecycle]_vars

-----------------------------------------------------------------------------
(* SpecTotals: orders with client-stated prices, payment methods and       *)
(* addresses, then cancelled or moved.                                      *)

PlacePricedOrderReq ==
    \E r \in RestIds, items \in ItemLists(PricedItems) :
        /\ Len(orders) < MaxTotalOrders
        /\ PlaceOrder("c1", r, items, Null, Null, TRUE, TRUE)

CancelPricedOrderReq == \E id \in 1..MaxTotalOrders : CancelOrder("c1", id)

DeliverPricedOrderReq ==
    \E o \in Owners, id \in 1..MaxTotalOrders : UpdateOrderStatus(o, id, "delivered")

NextTotals ==
    \/ PlacePricedOrderReq
    \/ CancelPricedOrderReq
    \/ DeliverPricedOrderReq

SpecTotals == Init /\ [][NextTotals]_vars

-----------------------------------------------------------------------------
(* SpecFault: checkout against a store whose writes may fail.               *)

FaultyCheckoutReq ==
    \E r \in RestIds, pm \in PaymentInputs, orderSaveOk \in BOOLEAN, cartSaveOk \in BOOLEAN :
        /\ Len(orders) < MaxFaultOrders
        /\ PlaceOrder("c1", r, <<MenuItem(r)>>, pm, Null, orderSaveOk, cartSaveOk)

NextFault ==
    \/ FillCartReq
    \/ FaultyCheckoutReq

SpecFault == Init /\ [][NextFault]_vars

-----------------------------------------------------------------------------
(* SpecRating: customer c1 orders at r1, the owner delivers, customers rate. *)

RatingInputs == {0, 2, 5, 6}    \* 0 is falsy, 6 is out of range

OrderToRateReq ==
    /\ Len(orders) < MaxRatedOrders
    /\ PlaceOrder("c1", "r1", <<MenuItem("r1")>>, Null, Null, TRUE, TRUE)

DeliverReq == \E id \in 1..MaxRatedOrders : UpdateOrderStatus("o1", id, "delivered")

\* c1 rates with or without an order; c2 tries to rate c1's orders
RateReq ==
    \E u \in Customers, order \in 0..MaxRatedOrders, r \in RestIds \cup {Null},
       rating \in RatingInputs, f \in {Null, "f1"} :
        /\ Len(feedbacks) < MaxFeedbacks
        /\ u = "c2" => order # NoOrder
        /\ SubmitFeedback(u, order, r, rating, f)

NextRating ==
    \/ OrderToRateReq
    \/ DeliverReq
    \/ RateReq

SpecRating == Init /\ [][NextRating]_vars

-----------------------------------------------------------------------------
(* SpecLinkedRating: customer c1 orders at r1, the owner moves the orders    *)
(* between pending and delivered, both customers rate naming an order.       *)

LinkedOrderReq ==
    /\ Len(orders) < MaxLinkedOrders
    /\ PlaceOrder("c1", "r1", <<MenuItem("r1")>>, Null, Null, TRUE, TRUE)

LinkedStatusReq ==
    \E id \in 1..MaxLinkedOrders, status \in {"pending", "delivered"} :
        UpdateOrderStatus("o1", id, status)

\* the order named may be one not stored (MaxLinkedOrders + 1)
LinkedRateReq ==
    \E u \in Customers, order \in 1..(MaxLinkedOrders + 1), rating \in {2, 5} :
        /\ Len(feedbacks) < MaxFeedbacks
        /\ SubmitFeedback(u, order, "r1", rating, Null)

NextLinkedRating ==
    \/ LinkedOrderReq
    \/ LinkedStatusReq
    \/ LinkedRateReq

SpecLinkedRating == Init /\ [][NextLinkedRating]_vars

-----------------------------------------------------------------------------
(* SpecAccounts: registration, login and approval of accounts.              *)

UserTypeInputs == UserTypes \cup {Null, "guest"}    \* omitted; not in the enum

RegisterReq ==
    \E email \in NewEmails \cup {"c1"}, password \in {"secret", "abc"},
       userType \in UserTypeInputs :
        Register(email, password, userType)

LoginReq ==
    \E email \in NewEmails \cup {"o1"}, password \in {"secret", "guess"} :
        Login(email, password)

ApproveUserReq == \E id \in NewEmails \cup {"c1", "o1"} : ApproveUser("a1", id)

NextAccounts ==
    \/ RegisterReq
    \/ LoginReq
    \/ ApproveUserReq

SpecAccounts == Init /\ [][NextAccounts]_vars

-----------------------------------------------------------------------------
(* SpecGuards: requests to the role-scoped routers with every kind of       *)
(* credential.                                                              *)

Credentials ==
    {[kind |-> k, user |-> Null, userType |-> Null] : k \in BadCredentialKinds}
    \cup {[kind |-> "valid", user |-> u, userType |-> users[u].userType] :
             u \in {"c1", "o1", "a1"}}

AdminRequestReq == \E route \in AdminRoutes, cred \in Credentials : AdminRequest(route, cred)

RouterRequestReq ==
    \E role \in {"restaurant", "customer"}, cred \in Credentials : RouterRequest(role, cred)

NextGuards ==
    \/ AdminRequestReq
    \/ RouterRequestReq

SpecGuards == Init /\ [][NextGuards]_vars

-----------------------------------------------------------------------------
(* SpecAdminDelete: customer c1 orders at and rates both restaurants, admin *)
(* a1 deletes restaurants and users.                                        *)

OrderBeforeDeleteReq ==
    \E r \in RestIds :
        /\ Len(orders) < MaxDeleteOrders
        /\ PlaceOrder("c1", r, <<MenuItem(r)>>, Null, Null, TRUE, TRUE)

RateBeforeDeleteReq ==
    \E r \in RestIds :
        /\ Len(feedbacks) < MaxDeleteFeedbacks
        /\ SubmitFeedback("c1", NoOrder, r, MaxRating, Null)

DeleteRestaurantReq == \E id \in RestIds \cup {MissingRest} : DeleteRestaurant("a1", id)

DeleteUserReq == \E id \in {"o1", "c2", "a1", "a2", "n1"} : DeleteUser("a1", id)

NextAdminDelete ==
    \/ OrderBeforeDeleteReq
    \/ RateBeforeDeleteReq
    \/ DeleteRestaurantReq
    \/ DeleteUserReq

SpecAdminDelete == Init /\ [][NextAdminDelete]_vars

-----------------------------------------------------------------------------
(* SpecCartAccess: both customers read their carts and add menu items.      *)

GetCartReq == \E u \in Customers : GetCart(u)

AccessAddReq ==
    \E u \in Customers, r \in RestIds, q \in {0, 1} :
        LET newCart == AddedCart(FindOrCreateCart(u), MenuItem(r).foodItem, q, 2, r)
        IN /\ \A i \in 1..Len(newCart) : newCart[i].quantity <= MaxQty
           /\ AddToCart(u, MenuItem(r).foodItem, q, 2, r)

NextCartAccess ==
    \/ GetCartReq
    \/ AccessAddReq

SpecCartAccess == Init /\ [][NextCartAccess]_vars

-----------------------------------------------------------------------------
(* SpecConfig: two admins add categories and set the promoted restaurants,  *)
(* their requests interleaved at the handlers' awaits.                      *)

CategoryInputs == {Null, "", "Thai", "Vegan"}

AddCategoryFindReq == \E a \in Admins, name \in CategoryInputs : AddCategoryFind(a, name)

AddCategorySaveReq == \E a \in Admins : AddCategorySave(a)

SetPromotedFindReq ==
    \E a \in Admins, ids \in {{}, {"r1"}, {"r1", MissingRest}} : SetPromotedFind(a, ids)

SetPromotedSaveReq == \E a \in Admins : SetPromotedSave(a)

NextConfig ==
    \/ AddCategoryFindReq
    \/ AddCategorySaveReq
    \/ SetPromotedFindReq
    \/ SetPromotedSaveReq

SpecConfig == Init /\ [][NextConfig]_vars

-----------------------------------------------------------------------------
(* SpecCartRace: add-item requests of customer c1 that overlap between the  *)
(* cart's read and its save.                                                *)

AddToCartReadReq ==
    \E slot \in Slots, r \in RestIds, q \in {-1, 1} :
        LET cart == FindOrCreateCart("c1")
            newCart == AddedCart(cart, MenuItem(r).foodItem, q, 2, r)
            reading == {s \in Slots : inflight[s].pc # "idle"}
        IN /\ Len(cart) + Cardinality(reading) < Len(LineIdPool)
           /\ \A i \in 1..Len(newCart) : newCart[i].quantity <= MaxQty
           /\ AddToCartRead(slot, "c1", MenuItem(r).foodItem, q, 2, r)

AddToCartSaveReq == \E slot \in Slots : AddToCartSave(slot)

NextCartRace ==
    \/ AddToCartReadReq
    \/ AddToCartSaveReq

SpecCartRace == Init /\ [][NextCartRace]_vars

-----------------------------------------------------------------------------
(* SpecRatingRace: customer c1 orders at r1, the owner delivers, and c1's   *)
(* rating submissions overlap at the handler's and the hook's awaits.       *)

FeedbackCheckReq ==
    \E slot \in Slots, order \in 0..MaxRatedOrders, rating \in {2, 5} :
        LET submitting == {s \in Slots : inflight[s].pc = "checked"}
        IN /\ Len(feedbacks) + Cardinality(submitting) < MaxFeedbacks
           /\ FeedbackCheck(slot, "c1", order, "r1", rating)

FeedbackInsertReq == \E slot \in Slots : FeedbackInsert(slot)

FeedbackAggregateReq == \E slot \in Slots : FeedbackAggregate(slot)

FeedbackUpdateReq == \E slot \in Slots : FeedbackUpdate(slot)

NextRatingRace ==
    \/ OrderToRateReq
    \/ DeliverReq
    \/ FeedbackCheckReq
    \/ FeedbackInsertReq
    \/ FeedbackAggregateReq
    \/ FeedbackUpdateReq

SpecRatingRace == Init /\ [][NextRatingRace]_vars

-----------------------------------------------------------------------------
(* SpecCartQuantity: every cart request of one customer, with zero and      *)
(* negative quantities, and checkout of what the cart holds.                *)

QuantityCheckoutReq ==
    \E r \in RestIds :
        /\ Len(orders) < MaxQuantityOrders
        /\ PlaceOrder("c1", r, <<MenuItem(r)>>, Null, Null, TRUE, TRUE)

NextCartQuantity ==
    \/ AddToCartReq
    \/ UpdateCartItemReq
    \/ DeleteCartReq
    \/ QuantityCheckoutReq

SpecCartQuantity == Init /\ [][NextCartQuantity]_vars

-----------------------------------------------------------------------------
(* SpecCancelRace: customers' cancels of an order overlap with each other   *)
(* and with the status updates of the restaurant's owner.                   *)

RaceOrderReq ==
    \E u \in Customers :
        /\ Len(orders) < MaxRaceOrders
        /\ PlaceOrder(u, "r1", <<MenuItem("r1")>>, Null, Null, TRUE, TRUE)

CancelOrderReadReq ==
    \E slot \in Slots, u \in Customers, id \in 1..MaxRaceOrders : CancelOrderRead(slot, u, id)

CancelOrderSaveReq == \E slot \in Slots : CancelOrderSave(slot)

RaceStatusReq ==
    \E id \in 1..MaxRaceOrders, st \in {"preparing", "delivered"} :
        UpdateOrderStatus("o1", id, st)

NextCancelRace ==
    \/ RaceOrderReq
    \/ CancelOrderReadReq
    \/ CancelOrderSaveReq
    \/ RaceStatusReq

SpecCancelRace == Init /\ [][NextCancelRace]_vars

-----------------------------------------------------------------------------
(* SpecSessions: accounts register, log in, are approved and deleted, and   *)
(* requests carry the tokens that /register and /login have issued.         *)

SessionRegisterReq ==
    \E email \in NewEmails, userType \in UserTypes : Register(email, "secret", userType)

SessionLoginReq == \E email \in NewEmails \cup {"c2"} : Login(email, "secret")

SessionApproveReq == \E id \in NewEmails : ApproveUser("a1", id)

SessionDeleteReq == DeleteUser("a1", "c2")

\* the Authorization header carrying an issued token
Bearer(token) == [kind |-> "valid", user |-> token.user, userType |-> token.userType]

SessionRouterReq ==
    \E role \in {"restaurant", "customer"}, token \in tokens :
        RouterRequest(role, Bearer(token))

SessionAdminReq ==
    \E route \in {r \in AdminRoutes : r.path \in {"GET /users", "GET /reports/metrics"}},
       token \in tokens :
        AdminRequest(route, Bearer(token))

NextSessions ==
    \/ SessionRegisterReq
    \/ SessionLoginReq
    \/ SessionApproveReq
    \/ SessionDeleteReq
    \/ SessionRouterReq
    \/ SessionAdminReq

SpecSessions == Init /\ [][NextSessions]_vars

-----------------------------------------------------------------------------
(* Properties of the order lifecycle (SpecLifecycle) *)

TerminalStatuses == {"delivered", "cancelled"}

\* C1: no order ever leaves a terminal status: once an order is delivered or
\* cancelled, no request changes its status again.
C1_TerminalStatusIsFinal ==
    [][\A id \in 1..Len(orders) :
          orders[id].status \in TerminalStatuses
              => orders'[id].status = orders[id].status]_vars

\* C3: a cancel request by the order's owner succeeds, leaving the order
\* cancelled, exactly when the order is pending or preparing; on a delivered or
\* cancelled order it answers 400 naming the current status and changes nothing.
C3_CancelIffPendingOrPreparing ==
    [][\A u \in Customers, id \in 1..MaxOrders :
          (CancelOrder(u, id) /\ id \in 1..Len(orders) /\ orders[id].user = u)
              => IF orders[id].status \in {"pending", "preparing"}
                 THEN res'.code = 200 /\ orders'[id].status = "cancelled"
                 ELSE /\ res'.code = 400
                      /\ res'.msg = orders[id].status
                      /\ orders' = orders]_vars

\* C3 witness: the owner's cancel of a delivered order was refused, naming delivered
C3_Witness ==
    /\ res.op = "cancelOrder" /\ res.code = 400 /\ res.msg = "delivered"
    /\ orders[res.n].user = res.user
    /\ orders[res.n].status = "delivered"

-----------------------------------------------------------------------------
(* Properties of the order totals (SpecTotals) *)

RECURSIVE LineTotal(_, _)
\* price * quantity of the first n items of an order, added up
LineTotal(items, n) ==
    IF n = 0 THEN 0
    ELSE LineTotal(items, n - 1) + items[n].price * items[n].quantity

\* C2: every stored order's totalAmount is the sum over its items of price *
\* quantity, after creation, cancel and status update, whatever prices the
\* client submitted.
C2_TotalIsSumOfLines ==
    \A id \in 1..Len(orders) :
        orders[id].totalAmount = LineTotal(orders[id].items, Len(orders[id].items))

\* C2 witness: a stored order of two items, one of them at a price that is not
\* the catalog's discounted price and in quantity 2, saved again by a cancel
C2_Witness ==
    \E id \in 1..Len(orders) :
        /\ Len(orders[id].items) = 2
        /\ \E i \in 1..2 :
              /\ orders[id].items[i].price # ActualUnitPrice(orders[id].items[i].foodItem)
              /\ orders[id].items[i].quantity = 2
        /\ orders[id].status = "cancelled"
        /\ res.op = "cancelOrder" /\ res.code = 200

-----------------------------------------------------------------------------
(* Properties of checkout (SpecCheckout) and of the cart (Spec) *)

\* the line items of a cart document, none for a user without a cart
CartLines(c) == IF c.exists THEN c.items ELSE <<>>

\* C4: after a successful place-order for restaurant R the customer's cart has
\* no line of R, and every line of another restaurant is still there, unchanged.
C4_CheckoutRemovesOnlyOrderedRestaurant ==
    [][(res'.op = "placeOrder" /\ res'.code = 201) =>
          LET r == orders'[res'.n].restaurant
              old == CartLines(carts[res'.user])
              new == CartLines(carts'[res'.user])
              others == {i \in 1..Len(old) : old[i].restaurant # r}
          IN /\ \A j \in 1..Len(new) : new[j].restaurant # r
             /\ \A i \in others : \E j \in 1..Len(new) : new[j] = old[i]
             /\ \A j \in 1..Len(new) : \E i \in others : new[j] = old[i]
             /\ Len(new) = Cardinality(others)]_vars

\* C4 witness: an order was placed and the cart still holds a line, of the
\* other restaurant
C4_Witness ==
    /\ res.op = "placeOrder" /\ res.code = 201
    /\ Len(CartLines(carts[res.user])) > 0
    /\ \A j \in 1..Len(carts[res.user].items) :
          carts[res.user].items[j].restaurant # orders[res.n].restaurant

NoDuplicateLines(cart) ==
    \A i, j \in 1..Len(cart) :
        (cart[i].foodItem = cart[j].foodItem /\ cart[i].restaurant = cart[j].restaurant)
            => i = j

\* C7: a successful add of food item F of restaurant R with quantity q adds q to
\* the quantity of the line of (F, R) if the cart has one, the number of lines
\* unchanged, and otherwise appends exactly one line (F, R, q, submitted price);
\* every other line is unchanged, and no cart has two lines of the same pair.
C7_AddMergesOrAppends ==
    [][/\ \A u \in Customers : NoDuplicateLines(CartLines(carts'[u]))
       /\ (res'.op = "addToCart" /\ res'.code = 200) =>
             \A f \in FoodInputs, q \in QuantityInputs, p \in PriceInputs, r \in RestIds :
                AddToCart(res'.user, f, q, p, r) =>
                LET old == CartLines(carts[res'.user])
                    new == CartLines(carts'[res'.user])
                    same == {i \in 1..Len(old) :
                                old[i].foodItem = f /\ old[i].restaurant = r}
                IN IF same # {}
                   THEN /\ Len(new) = Len(old)
                        /\ \A i \in same :
                              new[i] = [old[i] EXCEPT !.quantity = old[i].quantity + q]
                        /\ \A i \in (1..Len(old)) \ same : new[i] = old[i]
                   ELSE /\ Len(new) = Len(old) + 1
                        /\ \A i \in 1..Len(old) : new[i] = old[i]
                        /\ new[Len(new)].foodItem = f
                        /\ new[Len(new)].restaurant = r
                        /\ new[Len(new)].quantity = q
                        /\ new[Len(new)].priceAtTimeOfAddition = p]_vars

\* C7 witness: an add succeeded on a cart of two lines, one of which has a
\* quantity above that of any single request, which only a merging add reaches
C7_Witness ==
    /\ res.op = "addToCart" /\ res.code = 200 /\ res.n = 2
    /\ \E i \in 1..Len(carts[res.user].items) : \A q \in QuantityInputs : carts[res.user].items[i].quantity > q

\* C8: DELETE /cart/clear on a cart with line items answers 200 and leaves the
\* cart empty; on an empty cart it answers 200 and changes nothing.
C8_ClearEmptiesCart ==
    [][(res'.op = "deleteCart" /\ res'.ref = "clear") =>
          /\ res'.code = 200
          /\ CartLines(carts'[res'.user]) = <<>>]_vars

\* C6: whenever place order answers with an error, no order has been stored and
\* the cart's line items are as they were, also when the order was saved and
\* the cart's save failed.
C6_FailedCheckoutLeavesNoTrace ==
    [][(res'.op = "placeOrder" /\ res'.code >= 400) =>
          /\ orders' = orders
          /\ CartLines(carts'[res'.user]) = CartLines(carts[res'.user])]_vars

-----------------------------------------------------------------------------
(* Properties of the ratings (SpecRating) *)

RECURSIVE RatingSum(_, _, _)
\* the ratings among the first n stored whose receiver is r, added up
RatingSum(fbs, n, r) ==
    IF n = 0 THEN 0
    ELSE RatingSum(fbs, n - 1, r) + (IF fbs[n].receiver = r THEN fbs[n].rating ELSE 0)

\* C9: between rating submissions every restaurant's averageRating is the
\* arithmetic mean of the stored ratings whose receiver it is, and null when
\* there are none.
C9_AverageIsMeanOfRatings ==
    \A r \in DOMAIN restaurants :
        LET received == {i \in 1..Len(feedbacks) : feedbacks[i].receiver = r}
            avg == restaurants[r].averageRating
        IN IF received = {}
           THEN avg = NoRating
           ELSE /\ avg.den > 0
                /\ avg.num * Cardinality(received)
                       = avg.den * RatingSum(feedbacks, Len(feedbacks), r)

\* C9 witness: one restaurant has a mean that is no whole number while a rating
\* of the other restaurant is stored too
C9_Witness ==
    /\ res.op = "submitFeedback" /\ res.code = 201
    /\ restaurants["r1"].averageRating.den = 2
    /\ restaurants["r2"].averageRating # NoRating

\* C10: after every successful rating submission that names a food item, the
\* ratings stored naming that food item include the one submitted and the food
\* item's rating field is their arithmetic mean.
C10_FoodItemRatingIsMean ==
    [][(res'.op = "submitFeedback" /\ res'.code = 201) =>
          \A u \in Customers, order \in 0..MaxRatedOrders, r \in RestIds,
             rating \in RatingInputs, f \in FoodIds :
              SubmitFeedback(u, order, r, rating, f) =>
                  LET naming == {i \in 1..Len(feedbacks') : feedbacks'[i].foodItem = f}
                  IN /\ Len(feedbacks') \in naming
                     /\ foodItems'[f].rating # NoRating
                     /\ foodItems'[f].rating =
                            Average([i \in 1..Len(feedbacks') |-> feedbacks'[i]])]_vars

-----------------------------------------------------------------------------
(* Properties of the order-linked ratings (SpecLinkedRating) *)

\* C11: a rating submission by a user naming a delivered order of theirs fails
\* with the duplicate error and stores nothing when the user has already rated
\* that order, and succeeds, storing the rating, when they have not, whatever
\* other orders they have rated.
C11_OneRatingPerUserAndOrder ==
    [][res'.op = "submitFeedback" =>
          \A order \in 1..Len(orders), rating \in {2, 5} :
              (/\ orders[order].user = res'.user
               /\ orders[order].status = "delivered"
               /\ SubmitFeedback(res'.user, order, "r1", rating, Null))
                  => IF \E i \in 1..Len(feedbacks) :
                            feedbacks[i].user = res'.user /\ feedbacks[i].order = order
                     THEN /\ res'.code = 400 /\ res'.msg = "alreadyRated"
                          /\ feedbacks' = feedbacks
                     ELSE /\ res'.code = 201
                          /\ Len(feedbacks') = Len(feedbacks) + 1
                          /\ feedbacks'[Len(feedbacks')].order = order]_vars

\* C11 witness: the user has rated two different orders and a further rating of
\* one of them has just been refused as a duplicate
C11_Witness ==
    /\ res.op = "submitFeedback" /\ res.code = 400 /\ res.msg = "alreadyRated"
    /\ \E i, j \in 1..Len(feedbacks) :
          /\ feedbacks[i].user = res.user /\ feedbacks[j].user = res.user
          /\ feedbacks[i].order # NoOrder /\ feedbacks[j].order # NoOrder
          /\ feedbacks[i].order # feedbacks[j].order

\* C12: every rating stored with an order was submitted by the customer who
\* owns the order while its status was delivered; a submission naming an order
\* that is missing, another user's or not delivered fails and stores nothing.
C12_LinkedRatingByOwnerOfDeliveredOrder ==
    [][/\ \A i \in (Len(feedbacks) + 1)..Len(feedbacks') :
             feedbacks'[i].order # NoOrder =>
                 /\ feedbacks'[i].order \in 1..Len(orders)
                 /\ orders[feedbacks'[i].order].user = feedbacks'[i].user
                 /\ orders[feedbacks'[i].order].status = "delivered"
       /\ res'.op = "submitFeedback" =>
             \A order \in 1..(MaxLinkedOrders + 1), rating \in {2, 5} :
                 (/\ \/ order \notin 1..Len(orders)
                     \/ orders[order].user # res'.user
                     \/ orders[order].status # "delivered"
                  /\ SubmitFeedback(res'.user, order, "r1", rating, Null))
                     => res'.code >= 400 /\ feedbacks' = feedbacks]_vars

\* C12 witness: a rating of an order is stored, the order has since left
\* delivered, and a rating of it by the other customer has just been refused
C12_Witness ==
    /\ res.op = "submitFeedback" /\ res.code = 403
    /\ \E i \in 1..Len(feedbacks) :
          /\ feedbacks[i].order # NoOrder
          /\ feedbacks[i].user # res.user
          /\ orders[feedbacks[i].order].status # "delivered"

-----------------------------------------------------------------------------
(* Properties of the accounts (SpecAccounts) *)

C14_CustomerAcceptedAtOnce ==
    [][(res'.op = "register" /\ res'.code = 201 /\ users'[res'.user].userType = "customer")
          => users'[res'.user].approval = "accepted"]_vars

-----------------------------------------------------------------------------
(* Properties of the guards (SpecGuards) *)

\* C15: a request to any route of /api/admin, the reports included, that
\* carries no valid credential is answered 401, and one whose role is not admin
\* is answered 403, in both cases before the route's handler runs.
C15_AdminRoutesGuarded ==
    [][res'.op = "adminRequest" =>
          \A route \in AdminRoutes, cred \in Credentials :
              AdminRequest(route, cred) =>
                  /\ cred.kind # "valid" => res'.code = 401 /\ res'.msg # "handler"
                  /\ (cred.kind = "valid" /\ cred.userType # "admin")
                         => res'.code = 403 /\ res'.msg # "handler"]_vars

\* C16: a request through protect whose credential is missing, malformed,
\* invalid or expired is answered 401 by protect itself: neither authorize nor
\* the route's handler runs.
C16_ProtectRejectsBadCredential ==
    [][/\ res'.op = "routerRequest" =>
             \A role \in {"restaurant", "customer"}, cred \in Credentials :
                 (cred.kind \in BadCredentialKinds /\ RouterRequest(role, cred))
                     => res'.code = 401 /\ res'.msg = "protect"
       /\ res'.op = "adminRequest" =>
             \A route \in AdminRoutes, cred \in Credentials :
                 (/\ route.guarded /\ cred.kind \in BadCredentialKinds
                  /\ AdminRequest(route, cred))
                     => res'.code = 401 /\ res'.msg = "protect"]_vars

\* C16 witness: a request with a bad credential has just been answered 401 by
\* protect
C16_Witness ==
    /\ res.op \in {"routerRequest", "adminRequest"}
    /\ res.code = 401 /\ res.msg = "protect" /\ res.user = Null

-----------------------------------------------------------------------------
(* Properties of the restaurant's status update (SpecLifecycle) *)

\* C17: an update-status request changes the Order collection only when the
\* order named is one of the caller's own restaurant and the status asked for
\* is one of the four valid values, and then changes that order only; for
\* another restaurant's order it answers 403, for an unknown order 404, for any
\* other status value 400, and the orders are as they were.
C17_StatusUpdateOwnOrdersOnly ==
    [][res'.op = "updateOrderStatus" =>
          \A owner \in {res'.user}, id \in {res'.n}, status \in StatusInputs :
              UpdateOrderStatus(owner, id, status) =>
                  /\ orders' # orders =>
                         /\ id \in OrderIds
                         /\ orders[id].restaurant = FindRestaurant(owner)
                         /\ status \in OrderStatuses
                         /\ \A other \in 1..Len(orders) : other # id => orders'[other] = orders[other]
                  /\ status \notin OrderStatuses => res'.code = 400 /\ orders' = orders
                  /\ (status \in OrderStatuses /\ id \notin OrderIds)
                         => res'.code = 404 /\ orders' = orders
                  /\ (status \in OrderStatuses /\ id \in OrderIds
                          /\ orders[id].restaurant # FindRestaurant(owner))
                         => res'.code = 403 /\ orders' = orders]_vars

\* C17 witness: orders of both restaurants are stored and an update of one of
\* them by the other restaurant's owner has just been refused
C17_Witness ==
    /\ res.op = "updateOrderStatus" /\ res.code = 403 /\ res.msg = "notYourOrder"
    /\ \E a, b \in 1..Len(orders) : orders[a].restaurant # orders[b].restaurant

-----------------------------------------------------------------------------
(* Properties of deletion (SpecAdminDelete) *)

\* the restaurant a successful delete request has removed: the one named by a
\* restaurant delete, the one owned by the user named by a user delete
RemovedRestaurant ==
    IF res'.op = "deleteRestaurant" THEN res'.ref
    ELSE IF users[res'.ref].userType = "restaurant" THEN FindRestaurant(res'.ref)
    ELSE Null

\* C18: after a successful delete of restaurant R by the admin no food item,
\* order or rating of R is stored and R is gone, and the restaurants, food
\* items, orders and ratings of the other restaurants are as they were.
C18_DeleteCascadesToOwnRecordsOnly ==
    [][(res'.op \in {"deleteRestaurant", "deleteUser"} /\ res'.code = 200
            /\ RemovedRestaurant # Null) =>
          LET R == RemovedRestaurant
          IN /\ R \notin DOMAIN restaurants'
             /\ \A f \in DOMAIN foodItems' : foodItems'[f].restaurant # R
             /\ \A id \in OrderIds' : orders'[id].restaurant # R
             /\ \A i \in 1..Len(feedbacks') : feedbacks'[i].receiver # R
             /\ \A r \in DOMAIN restaurants \ {R} :
                    r \in DOMAIN restaurants' /\ restaurants'[r] = restaurants[r]
             /\ \A f \in DOMAIN foodItems :
                    foodItems[f].restaurant # R
                        => f \in DOMAIN foodItems' /\ foodItems'[f] = foodItems[f]
             /\ \A id \in OrderIds :
                    orders[id].restaurant # R => id \in OrderIds' /\ orders'[id] = orders[id]
             /\ feedbacks' = SelectSeq(feedbacks, LAMBDA fb : fb.receiver # R)]_vars

\* C18 witness: a restaurant has just been deleted, orders of it are gone, and
\* an order and a rating of the other restaurant are stored
C18_Witness ==
    /\ res.op = "deleteRestaurant" /\ res.code = 200
    /\ \E id \in deletedOrders : orders[id].restaurant = res.ref
    /\ \E id \in OrderIds : orders[id].restaurant # res.ref
    /\ \E i \in 1..Len(feedbacks) : feedbacks[i].receiver # res.ref

-----------------------------------------------------------------------------
(* Properties of the cart middleware (SpecCartAccess) *)

\* C19: after every cart access by a user that user has a cart and the other
\* users' carts are as they were; an access that only reads, or whose request
\* is refused, leaves the line items of an existing cart as they were and
\* gives a user without a cart an empty one.
C19_GetOrCreateIdempotent ==
    [][res'.op \in {"getCart", "addToCart"} =>
          /\ carts'[res'.user].exists
          /\ \A v \in Customers \ {res'.user} : carts'[v] = carts[v]
          /\ (res'.op = "getCart" \/ res'.code >= 400) =>
                 carts'[res'.user].items = CartLines(carts[res'.user])
          /\ res'.op = "getCart" =>
                 res'.code = 200 /\ res'.n = Len(CartLines(carts[res'.user]))]_vars

\* C19 witness: a user whose cart holds lines has just read it, and the other
\* user has a cart too
C19_Witness ==
    /\ res.op = "getCart" /\ res.code = 200 /\ res.n > 0
    /\ Len(carts[res.user].items) = res.n
    /\ \A v \in Customers : carts[v].exists

-----------------------------------------------------------------------------
(* Properties of the Admin configuration (SpecConfig) *)

\* C20: in every reachable state the Admin collection holds at most one
\* document, whichever requests created it and also when two creating requests
\* overlap.
C20_AtMostOneAdminConfig == Len(adminConfigs) <= 1

-----------------------------------------------------------------------------
(* Properties of overlapping add-item requests (SpecCartRace) *)

RECURSIVE PairQuantity(_, _, _)
\* the quantities of the lines of a cart for one (food item, restaurant) pair,
\* added up
PairQuantity(lines, f, r) ==
    IF lines = <<>> THEN 0
    ELSE PairQuantity(Tail(lines), f, r)
             + (IF Head(lines).foodItem = f /\ Head(lines).restaurant = r
                THEN Head(lines).quantity ELSE 0)

\* C21: every add-item request that finishes with success has raised the stored
\* cart's quantity of its (food item, restaurant) pair by the quantity it
\* asked for, also when another add-item request of the user read the cart
\* before this one saved: no requested quantity is lost.
C21_OverlappingAddsKeepBothQuantities ==
    [][\A slot \in Slots :
          (/\ inflight[slot].op = "addToCart" /\ inflight'[slot].pc = "idle"
           /\ res'.code = 200)
              => LET call == inflight[slot]
                 IN PairQuantity(carts'[call.user].items, call.food, call.rest)
                        = PairQuantity(carts[call.user].items, call.food, call.rest)
                              + call.qty]_vars

-----------------------------------------------------------------------------
(* Properties of overlapping rating submissions (SpecRatingRace) *)

\* C22: whenever no rating submission is in flight, every restaurant's
\* averageRating is the mean of the ratings stored for it, also after
\* submissions for the same restaurant that overlapped.
C22_AverageCurrentWhenQuiescent ==
    (\A slot \in Slots : inflight[slot].pc = "idle") =>
        \A r \in DOMAIN restaurants :
            LET count == Cardinality({i \in 1..Len(feedbacks) : feedbacks[i].receiver = r})
            IN IF count = 0
               THEN restaurants[r].averageRating = NoRating
               ELSE restaurants[r].averageRating.num * count
                        = restaurants[r].averageRating.den
                              * RatingSum(feedbacks, Len(feedbacks), r)

\* C27: no two stored ratings have the same user and the same order, also when
\* two submissions by the user for the order overlapped.
C27_OneRatingPerUserAndOrderStored ==
    \A i, j \in 1..Len(feedbacks) :
        (/\ i # j
         /\ feedbacks[i].order # NoOrder
         /\ feedbacks[i].user = feedbacks[j].user)
            => feedbacks[i].order # feedbacks[j].order

-----------------------------------------------------------------------------
(* Receiver of an order-linked rating (SpecRating) *)

\* C30: every stored rating that names an order has as its receiver the
\* restaurant of that order.
C30_LinkedRatingReceiverIsOrderRestaurant ==
    \A i \in 1..Len(feedbacks) :
        feedbacks[i].order # NoOrder
            => feedbacks[i].receiver = orders[feedbacks[i].order].restaurant

-----------------------------------------------------------------------------
(* Frame of the status changes and ownership of cancel (SpecLifecycle) *)

\* C23: a cancel or update-status request adds and removes no order and
\* leaves every stored order's user, restaurant, items, payment method,
\* delivery address, order date and totalAmount as they were: at most the
\* status differs.
C23_StatusChangesLeaveOrderFieldsAlone ==
    [][res'.op \in {"cancelOrder", "updateOrderStatus"}
          => /\ Len(orders') = Len(orders)
             /\ \A id \in 1..Len(orders) :
                    [orders'[id] EXCEPT !.status = orders[id].status] = orders[id]]_vars

\* a cancel has changed the status of an order that carries a total
C23_Witness ==
    /\ res.op = "cancelOrder" /\ res.code = 200
    /\ orders[res.n].status = "cancelled"
    /\ orders[res.n].totalAmount > 0
    /\ orders[res.n].orderDate = res.n

\* C25: a cancel request for a stored order of another user answers 403 and
\* leaves the orders as they were, whatever the order's status.
C25_CancelByOtherUserForbidden ==
    [][(/\ res'.op = "cancelOrder"
        /\ res'.n \in 1..Len(orders)
        /\ orders[res'.n].user # res'.user)
           => /\ res'.code = 403
              /\ orders' = orders]_vars

\* a delivered order's cancel by another customer has been refused
C25_Witness ==
    /\ res.op = "cancelOrder" /\ res.code = 403
    /\ res.n \in 1..Len(orders)
    /\ orders[res.n].user # res.user
    /\ orders[res.n].status = "delivered"

-----------------------------------------------------------------------------
(* Quantities of the stored cart lines (SpecCartQuantity) *)

\* C24: after every add, update-quantity, remove, clear and place-order
\* request every line of every stored cart has quantity >= 1, and a request
\* that is refused leaves the lines of the caller's cart as they were.
C24_StoredQuantitiesAtLeastOne ==
    [][/\ \A u \in Customers :
              \A i \in 1..Len(CartLines(carts'[u])) :
                  CartLines(carts'[u])[i].quantity >= MinQuantity
       /\ res'.code >= 400
              => CartLines(carts'[res'.user]) = CartLines(carts[res'.user])]_vars

\* the cart holds a line of each menu item and an add onto one of them has
\* been refused by the quantity's validator
C24_Witness ==
    /\ res.op = "addToCart" /\ res.code = 400 /\ res.msg = "validation"
    /\ Len(CartLines(carts["c1"])) = 2
    /\ \A i \in 1..2 : CartLines(carts["c1"])[i].quantity = 1
    /\ CartLines(carts["c1"])[1].foodItem # CartLines(carts["c1"])[2].foodItem

-----------------------------------------------------------------------------
(* Cancel overlapping with a status update (SpecCancelRace) *)

\* C26: the step that completes a customer's cancel never turns an order
\* that the restaurant has set to delivered into a cancelled one.
C26_DeliveredOrderNotCancelledByOverlap ==
    [][(\E slot \in Slots :
            inflight[slot].op = "cancelOrder" /\ inflight'[slot].pc = "idle")
          => \A id \in 1..Len(orders) :
                 orders[id].status = "delivered" => orders'[id].status = "delivered"]_vars

-----------------------------------------------------------------------------
(* Issued tokens at the guards (SpecSessions) *)

\* C28: a request that has passed protect and authorize of the restaurant
\* router or of a guarded admin route was not made with the token of an
\* account whose approval is pending.
C28_PendingAccountStoppedByGuards ==
    (/\ res.msg = "handler"
     /\ \/ res.op = "routerRequest" /\ res.ref = "restaurant"
        \/ res.op = "adminRequest" /\ res.ref = "GET /users")
        => users[res.user].approval # "pending"

\* C29: a request that has passed protect and authorize of a router was made
\* with the token of a user that exists.
C29_GuardedRequestHasExistingUser ==
    (/\ res.msg = "handler"
     /\ \/ res.op = "routerRequest"
        \/ res.op = "adminRequest" /\ res.ref = "GET /users")
        => users[res.user].exists

====
